---- MODULE Spec2Model ----
(***************************************************************************)
(* Model of PORTscanner.py: the ping sweep of one subnet.                  *)
(*                                                                         *)
(* main() reads a subnet string and calls sweep_network(subnet), which     *)
(* parses it (ipaddress.ip_network, strict=False), lists network.hosts()   *)
(* as strings, submits ping(h) for every host to a ThreadPoolExecutor of   *)
(* MAX_THREADS workers and, on the calling thread, appends every           *)
(* completed future's result to `results`, advances the progress task and  *)
(* rebuilds the live table.                                                *)
(*                                                                         *)
(* Text is kept tokenised: an address string is a record                   *)
(* [sep, parts] of the separator character and the digit strings between   *)
(* the separators ("192.168.1.9" is sep "." and parts                      *)
(* <<1,9,2>>, <<1,6,8>>, <<1>>, <<9>>).  An address value is the tuple of   *)
(* its groups (octets for IPv4, 16-bit groups for IPv6), most significant  *)
(* first, compared as a number in that base: the 32-bit and 128-bit values *)
(* themselves do not fit the model checker's integers.                     *)
(***************************************************************************)
EXTENDS Integers, Sequences, FiniteSets, TLC

\* ------------------------------------------------------------------ bounds

\* Number of pool workers in the model.  The program's ceiling is 200
\* (MAX_THREADS, line 26); the model scales it down so that address sets
\* larger than the ceiling are explored.
MaxWorkers == 2

\* Largest sweep, in hosts, in which every probe's outcome is left open; in
\* larger sweeps each host has one outcome, which keeps the state space
\* explorable.
MaxFreeHosts == 2

\* The widest host part, in bits, of the networks whose enumeration is
\* checked address by address (prefix lengths 32 - MaxEnumHostBits .. 32).
MaxEnumHostBits == 4

\* ------------------------------------------------------- digits and text

RECURSIVE Pow2(_)
Pow2(n) == IF n = 0 THEN 1 ELSE 2 * Pow2(n - 1)

\* str(int) in the given base: most significant digit first, no padding.
RECURSIVE ToDigits(_, _)
ToDigits(n, base) ==
    IF n < base THEN <<n>> ELSE ToDigits(n \div base, base) \o <<n % base>>

\* int(text, base) for a non-empty digit string.
RECURSIVE FromDigits(_, _)
FromDigits(d, base) ==
    IF Len(d) = 1 THEN d[1]
    ELSE FromDigits(SubSeq(d, 1, Len(d) - 1), base) * base + d[Len(d)]

Bits(version) == IF version = 4 THEN 32 ELSE 128
GroupBits(version) == IF version = 4 THEN 8 ELSE 16
NGroups(version) == IF version = 4 THEN 4 ELSE 8
Base(version) == IF version = 4 THEN 10 ELSE 16
Sep(version) == IF version = 4 THEN "." ELSE ":"

\* str(ip) of an address object [version, groups].
Str(ip) ==
    [sep |-> Sep(ip.version),
     parts |-> [g \in 1..NGroups(ip.version) |->
                    ToDigits(ip.groups[g], Base(ip.version))]]

\* Whether one part of an address string is a valid group of the version:
\* digits of the base, at most 3 (IPv4) or 4 (IPv6) of them, no leading zero
\* in an IPv4 octet, value within the group.
ValidPart(p, version) ==
    /\ Len(p) >= 1
    /\ Len(p) <= (IF version = 4 THEN 3 ELSE 4)
    /\ \A i \in 1..Len(p) : p[i] \in 0..(Base(version) - 1)
    /\ (version = 4 /\ Len(p) > 1) => p[1] # 0
    /\ FromDigits(p, Base(version)) < Pow2(GroupBits(version))

\* Whether the address constructor of the version accepts the string.
ParsesAs(text, version) ==
    /\ text.sep = Sep(version)
    /\ Len(text.parts) = NGroups(version)
    /\ \A g \in 1..Len(text.parts) : ValidPart(text.parts[g], version)

\* The groups of an accepted string.
GroupsOf(text, version) ==
    [g \in 1..Len(text.parts) |-> FromDigits(text.parts[g], Base(version))]

\* ipaddress.IPv4Address(s): the address value, or AddressValueError (a
\* ValueError) for anything that is not four dot-separated octets.
IPv4Address(text) ==
    IF ParsesAs(text, 4)
    THEN [ok |-> TRUE, groups |-> GroupsOf(text, 4)]
    ELSE [ok |-> FALSE, groups |-> <<>>]

\* a < b on address values: comparison of the integers the groups spell.
AddrLess(a, b) ==
    \E i \in 1..Len(a) :
        /\ a[i] < b[i]
        /\ \A j \in 1..(i - 1) : a[j] = b[j]

\* sorted(items, key=...): the keys are computed once per item, then the
\* items are put in ascending key order, equal keys in their given order.
\* InsertByKey inserts item number i into the ascending index list `sorted`.
RECURSIVE InsertByKey(_, _, _)
InsertByKey(sorted, i, keys) ==
    IF sorted = <<>> THEN <<i>>
    ELSE IF AddrLess(keys[i], keys[sorted[Len(sorted)]])
         THEN Append(InsertByKey(SubSeq(sorted, 1, Len(sorted) - 1), i, keys),
                     sorted[Len(sorted)])
         ELSE Append(sorted, i)

\* The indices 1..n in ascending order of keys.
RECURSIVE SortedIndices(_, _)
SortedIndices(n, keys) ==
    IF n = 0 THEN <<>> ELSE InsertByKey(SortedIndices(n - 1, keys), n, keys)

\* ------------------------------------------------------------ the network

\* Digit strings of a dotted quad / of eight hex groups, for writing inputs.
V4(a, b, c, d) ==
    [sep |-> ".",
     parts |-> <<ToDigits(a, 10), ToDigits(b, 10), ToDigits(c, 10), ToDigits(d, 10)>>]

V6(a, b, h) ==
    [sep |-> ":",
     parts |-> <<ToDigits(a, 16), ToDigits(b, 16), <<0>>, <<0>>, <<0>>, <<0>>, <<0>>,
                 ToDigits(h, 16)>>]

\* A subnet string "address/prefix", split at the slash.
Subnet(address, prefix) == [address |-> address, prefix |-> prefix]

\* The subnet strings main() may hand to sweep_network (non-empty after
\* strip()): IPv4 networks of 1, 2 and 6 hosts, one written with host bits
\* set, IPv6 networks, and strings ip_network refuses.
Subnets ==
    { Subnet(V4(192, 168, 1, 0), 30),
      Subnet(V4(192, 168, 1, 13), 29),
      Subnet(V4(10, 0, 0, 5), 32),
      Subnet(V4(10, 0, 0, 4), 31),
      Subnet(V6(8193, 3512, 0), 126),
      Subnet(V6(8193, 3512, 5), 128),
      Subnet(V4(10, 0, 0, 1), 33),
      Subnet([sep |-> "-", parts |-> <<>>], 0) }

\* The subnet strings whose enumeration is checked address by address:
\* every last octet of two blocks of the widest network, network address,
\* broadcast address and addresses with host bits set among them, with
\* every prefix length down to 32 - MaxEnumHostBits.
EnumSubnets ==
    { Subnet(V4(192, 168, 1, x), p) :
        x \in 0..(Pow2(MaxEnumHostBits + 1) - 1),
        p \in (32 - MaxEnumHostBits)..32 }

\* The version ip_network settles on: IPv4 is tried first, then IPv6; 0 when
\* both constructors raise.
VersionOf(subnet) ==
    IF ParsesAs(subnet.address, 4) /\ subnet.prefix \in 0..32 THEN 4
    ELSE IF ParsesAs(subnet.address, 6) /\ subnet.prefix \in 0..128 THEN 6
    ELSE 0

\* groups with the low `hostbits` bits cleared (hostbits within the last group).
MaskHostBits(groups, hostbits) ==
    [g \in 1..Len(groups) |->
        IF g = Len(groups)
        THEN groups[g] - (groups[g] % Pow2(hostbits))
        ELSE groups[g]]

\* ipaddress.ip_network(subnet, strict=False): host bits of the address are
\* masked off; ValueError when the string is neither an IPv4 nor an IPv6
\* network.
ip_network(subnet) ==
    LET v == VersionOf(subnet) IN
    IF v = 0
    THEN [ok |-> FALSE, version |-> 0, network_address |-> <<>>, prefixlen |-> 0]
    ELSE [ok |-> TRUE, version |-> v,
          network_address |->
              MaskHostBits(GroupsOf(subnet.address, v), Bits(v) - subnet.prefix),
          prefixlen |-> subnet.prefix]

\* The address object `offset` above the network address.
AddressAt(network, offset) ==
    [version |-> network.version,
     groups |-> [g \in 1..Len(network.network_address) |->
                    IF g = Len(network.network_address)
                    THEN network.network_address[g] + offset
                    ELSE network.network_address[g]]]

\* An enumeration that leaves nothing out: network and broadcast address
\* are listed with the hosts.
NetworkHostsAll(network) ==
    [i \in 1..Pow2(Bits(network.version) - network.prefixlen) |->
        AddressAt(network, i - 1)]

\* An enumeration that drops the first and the last address of every
\* network, the smallest ones too.
NetworkHostsExcluding(network) ==
    [i \in 1..(Pow2(Bits(network.version) - network.prefixlen) - 2) |->
        AddressAt(network, i)]

\* network.hosts(): every address of a single-address network and of a
\* two-address network; otherwise all addresses but the network address
\* and, for IPv4, the broadcast address.
NetworkHosts(network) ==
    LET hostbits == Bits(network.version) - network.prefixlen
        size == Pow2(hostbits)
        first == IF hostbits <= 1 THEN 0 ELSE 1
        last == IF hostbits <= 1 THEN size - 1
                ELSE IF network.version = 4 THEN size - 2 ELSE size - 1
    IN [i \in 1..(last - first + 1) |-> AddressAt(network, first + i - 1)]

\* hosts = [str(ip) for ip in network.hosts()]
HostStrings(network) ==
    LET hs == NetworkHosts(network) IN [i \in 1..Len(hs) |-> Str(hs[i])]

\* ------------------------------------------------------------- the probe

\* max_workers of the pool (MAX_THREADS = 200 in the program, scaled).
MAX_THREADS == MaxWorkers

\* The values of platform.system().lower() the model runs on: one for each
\* branch of build_ping_cmd.
Platforms == {"windows", "linux"}

PING_TIMEOUT_MS == 800

\* build_ping_cmd(host): ping with a count flag and count, a timeout flag
\* and the timeout as str() of a number, and the host.  Windows takes -w in
\* milliseconds; elsewhere -W is given PING_TIMEOUT_MS // 1000.
build_ping_cmd(os, host) ==
    IF os = "windows"
    THEN [count_flag |-> "-n", count |-> <<1>>,
          timeout_flag |-> "-w", timeout |-> ToDigits(PING_TIMEOUT_MS, 10),
          host |-> host]
    ELSE [count_flag |-> "-c", count |-> <<1>>,
          timeout_flag |-> "-W", timeout |-> ToDigits(PING_TIMEOUT_MS \div 1000, 10),
          host |-> host]

\* What running the echo command for one host can do: exit status 0, a
\* non-zero exit status, or an error raised while launching or running it
\* (OSError and its kin, all subclasses of Exception).
Outcomes == {"exit0", "nonzero", "error"}

\* The outcomes the echo command can have for a host.  In a sweep of at
\* most MaxFreeHosts hosts every host can do anything; in a larger sweep the
\* hosts answer in a fixed way, the three outcomes taking turns by address.
LastGroup(host) ==
    FromDigits(host.parts[Len(host.parts)], IF host.sep = "." THEN 10 ELSE 16)

EchoOutcomes(host, nhosts) ==
    IF nhosts <= MaxFreeHosts THEN Outcomes
    ELSE IF LastGroup(host) % 3 = 0 THEN {"error"}
    ELSE IF LastGroup(host) % 3 = 1 THEN {"exit0"}
    ELSE {"nonzero"}

\* ping without its `except Exception`: an error raised by the echo command
\* escapes the call.
ping_uncaught(host, outcome) ==
    IF outcome = "error"
    THEN [raised |-> TRUE, value |-> <<>>]
    ELSE [raised |-> FALSE, value |-> <<host, outcome = "exit0">>]

\* ping taking every exit of the echo command, whatever its status, for an
\* answer.
ping_any_exit(host, outcome) ==
    [raised |-> FALSE, value |-> <<host, outcome # "error">>]

\* ping(host): alive is returncode == 0; `except Exception` turns a raised
\* error into alive = False.  The record is what the call does: raise, or
\* return the tuple (host, alive).
ping(host, outcome) ==
    [raised |-> FALSE, value |-> <<host, outcome = "exit0">>]

\* ------------------------------------------------------------- the state

VARIABLES
    OS,              \* OS: platform.system().lower()
    subnet,          \* the string main() read from the prompt
    pc,              \* where the calling thread is
    message,         \* what sweep_network printed before sys.exit(1)
    network,         \* the parsed network
    hosts,           \* hosts: the address strings to probe
    executor,        \* whether the ThreadPoolExecutor has been created
    future_to_host,  \* future id -> host, in submission order
    fstate,          \* future id -> "pending" | "running" | "finished"
    fecho,           \* future id -> what the echo command did, once finished
    foutcome,        \* future id -> what its ping call did, once finished
    work_queue,      \* the pool's queue of pending future ids
    threads,         \* number of worker threads the pool has created
    idle,            \* the pool's idle semaphore
    ping_log,        \* the hosts ping was called for, in call order
    cmd_log,         \* the echo commands built by those calls, in call order
    ready,           \* finished futures as_completed will yield, in order
    yielded,         \* futures as_completed has yielded
    results,         \* results: the (ip, alive) tuples appended so far
    completed,       \* the progress task's completed count
    total,           \* the progress task's total
    table_rows,      \* table.rows: the number of Row objects (a Row holds style only)
    table_cells,     \* the cells of the table's two columns, one (ip, status) per line
    exc,             \* the exception propagating on the calling thread
    cancelled,       \* whether KeyboardInterrupt was delivered
    up_hosts         \* main()'s list of live hosts

vars == <<OS, subnet, pc, message, network, hosts, executor, future_to_host, fstate,
          fecho, foutcome, work_queue, threads, idle, ping_log, cmd_log, ready, yielded, results,
          completed, total, table_rows, table_cells, exc, cancelled, up_hosts>>

NoNetwork == [ok |-> FALSE, version |-> 0, network_address |-> <<>>, prefixlen |-> 0]
NoOutcome == [raised |-> FALSE, value |-> <<>>]

Futures == 1..Len(future_to_host)
Running == {f \in Futures : fstate[f] = "running"}
Finished == {f \in Futures : fstate[f] = "finished"}

\* main(), lines 110-120: a non-empty subnet string, one of `inputs`, is
\* handed to sweep_network.
MainCalls(inputs) ==
    /\ OS \in Platforms
    /\ subnet \in inputs
    /\ pc = "parse"
    /\ message = "none"
    /\ network = NoNetwork
    /\ hosts = <<>>
    /\ executor = FALSE
    /\ future_to_host = <<>>
    /\ fstate = <<>>
    /\ fecho = <<>>
    /\ foutcome = <<>>
    /\ work_queue = <<>>
    /\ threads = 0
    /\ idle = 0
    /\ ping_log = <<>>
    /\ cmd_log = <<>>
    /\ ready = <<>>
    /\ yielded = {}
    /\ results = <<>>
    /\ completed = 0
    /\ total = 0
    /\ table_rows = 0
    /\ table_cells = <<>>
    /\ exc = "none"
    /\ cancelled = FALSE
    /\ up_hosts = <<>>

Init == MainCalls(Subnets)

\* ------------------------------------------------------ sweep_network

\* The subnet parsed only after the pool was created.
ParseRangeLate ==
    /\ pc = "parse"
    /\ executor' = TRUE
    /\ LET n == ip_network(subnet) IN
       IF n.ok
       THEN /\ network' = n
            /\ pc' = "setup"
            /\ message' = message
       ELSE /\ network' = network
            /\ pc' = "exited"
            /\ message' = "Invalid subnet: does not appear to be an IPv4 or IPv6 network"
    /\ UNCHANGED <<OS, subnet, hosts, future_to_host, fstate, fecho, foutcome,
                   work_queue, threads, idle, ping_log, cmd_log, ready, yielded, results,
                   completed, total, table_rows, table_cells, exc, cancelled, up_hosts>>

\* Lines 67-71: parse the subnet; on ValueError print "Invalid subnet: <e>"
\* and sys.exit(1).
ParseRange ==
    /\ pc = "parse"
    /\ LET n == ip_network(subnet) IN
       IF n.ok
       THEN /\ network' = n
            /\ pc' = "setup"
            /\ message' = message
       ELSE /\ network' = network
            /\ pc' = "exited"
            /\ message' = "Invalid subnet: does not appear to be an IPv4 or IPv6 network"
    /\ UNCHANGED <<OS, subnet, hosts, executor, future_to_host, fstate, fecho, foutcome,
                   work_queue, threads, idle, ping_log, cmd_log, ready, yielded, results,
                   completed, total, table_rows, table_cells, exc, cancelled, up_hosts>>

\* The first host submitted a second time.
ToSubmitFirstTwice(hs) == IF hs = <<>> THEN hs ELSE Append(hs, hs[1])

\* `for h in hosts` of line 97: the hosts a probe is submitted for, in order.
ToSubmit(hs) == hs

\* Lines 73-96: list the hosts, start with empty results, a progress task of
\* total len(hosts) and an empty table, enter Live and create the pool.
Setup ==
    /\ pc = "setup"
    /\ hosts' = HostStrings(network)
    /\ results' = <<>>
    /\ total' = Len(HostStrings(network))
    /\ completed' = 0
    /\ table_rows' = 0
    /\ table_cells' = <<>>
    /\ executor' = TRUE
    /\ pc' = IF ToSubmit(HostStrings(network)) = <<>> THEN "as_completed" ELSE "submit"
    /\ UNCHANGED <<OS, subnet, message, network, future_to_host, fstate, fecho, foutcome,
                   work_queue, threads, idle, ping_log, cmd_log, ready, yielded, exc, cancelled,
                   up_hosts>>

\* A thread count adjusted without the max_workers test.
AdjustThreadCountUnbounded(nthreads, nidle) ==
    IF nidle > 0 THEN [threads |-> nthreads, idle |-> nidle - 1]
    ELSE [threads |-> nthreads + 1, idle |-> nidle]

\* ThreadPoolExecutor._adjust_thread_count, run by every submit: reuse an
\* idle worker if the idle semaphore can be taken, else start a new worker
\* thread while fewer than max_workers exist.
AdjustThreadCount(nthreads, nidle) ==
    IF nidle > 0 THEN [threads |-> nthreads, idle |-> nidle - 1]
    ELSE IF nthreads < MAX_THREADS THEN [threads |-> nthreads + 1, idle |-> nidle]
    ELSE [threads |-> nthreads, idle |-> nidle]

\* Line 97, one iteration: executor.submit(ping, h) creates a pending
\* future, queues it and adjusts the thread count; the future is keyed to
\* its host.  After the last one the calling thread enters as_completed.
Submit ==
    /\ pc = "submit"
    /\ Len(future_to_host) < Len(ToSubmit(hosts))
    /\ LET f == Len(future_to_host) + 1
           adj == AdjustThreadCount(threads, idle)
       IN /\ future_to_host' = Append(future_to_host, ToSubmit(hosts)[f])
          /\ fstate' = Append(fstate, "pending")
          /\ fecho' = Append(fecho, "none")
          /\ foutcome' = Append(foutcome, NoOutcome)
          /\ work_queue' = Append(work_queue, f)
          /\ threads' = adj.threads
          /\ idle' = adj.idle
          /\ pc' = IF f = Len(ToSubmit(hosts)) THEN "as_completed" ELSE "submit"
    /\ UNCHANGED <<OS, subnet, message, network, hosts, executor, ping_log, cmd_log, ready, yielded,
                   results, completed, total, table_rows, table_cells, exc, cancelled, up_hosts>>

\* A worker thread that is not running a work item takes the head of the
\* queue and calls ping for its host.
StartProbe ==
    /\ work_queue # <<>>
    /\ Cardinality(Running) < threads
    /\ LET f == Head(work_queue) IN
       /\ fstate' = [fstate EXCEPT ![f] = "running"]
       /\ ping_log' = Append(ping_log, future_to_host[f])
       /\ cmd_log' = Append(cmd_log, build_ping_cmd(OS, future_to_host[f]))
    /\ work_queue' = Tail(work_queue)
    /\ UNCHANGED <<OS, subnet, pc, message, network, hosts, executor, future_to_host,
                   fecho, foutcome, threads, idle, ready, yielded, results, completed, total,
                   table_rows, table_cells, exc, cancelled, up_hosts>>

\* A worker that appends its outcome to results itself when its probe ends.
FinishProbeAppends(f, outcome) ==
    /\ f \in Running
    /\ fstate' = [fstate EXCEPT ![f] = "finished"]
    /\ fecho' = [fecho EXCEPT ![f] = outcome]
    /\ foutcome' = [foutcome EXCEPT ![f] = ping(future_to_host[f], outcome)]
    /\ results' = Append(results, ping(future_to_host[f], outcome).value)
    /\ ready' = IF pc = "loop" THEN Append(ready, f) ELSE ready
    /\ idle' = idle + 1
    /\ UNCHANGED <<OS, subnet, pc, message, network, hosts, executor, future_to_host,
                   work_queue, threads, ping_log, cmd_log, yielded, completed,
                   total, table_rows, table_cells, exc, cancelled, up_hosts>>

\* The echo command of a running probe ends one way or another; ping
\* returns (or raises), the worker stores that in the future, hands the
\* future to the waiter as_completed installed (if the loop is running) and
\* releases the idle semaphore.
FinishProbe(f, outcome) ==
    /\ f \in Running
    /\ fstate' = [fstate EXCEPT ![f] = "finished"]
    /\ fecho' = [fecho EXCEPT ![f] = outcome]
    /\ foutcome' = [foutcome EXCEPT ![f] = ping(future_to_host[f], outcome)]
    /\ ready' = IF pc = "loop" THEN Append(ready, f) ELSE ready
    /\ idle' = idle + 1
    /\ UNCHANGED <<OS, subnet, pc, message, network, hosts, executor, future_to_host,
                   work_queue, threads, ping_log, cmd_log, yielded, results, completed,
                   total, table_rows, table_cells, exc, cancelled, up_hosts>>

\* Only the outcomes of live hosts appended.
RecordOutcomeIfAlive(rs, value) == IF value[2] THEN Append(rs, value) ELSE rs

\* A loop that records every outcome it takes twice.
RecordOutcomeTwice(rs, value) == Append(Append(rs, value), value)

\* Line 99: results.append(future.result()).
RecordOutcome(rs, value) == Append(rs, value)

\* The (ip, status) lines for the results in ascending order of
\* IPv4Address(ip).
SortedLines(rs) ==
    LET keys == [i \in 1..Len(rs) |-> IPv4Address(rs[i][1]).groups]
        order == SortedIndices(Len(rs), keys)
    IN [i \in 1..Len(rs) |->
           <<rs[order[i]][1], IF rs[order[i]][2] THEN "UP" ELSE "DOWN">>]

\* update_table (lines 89-93): table.rows.clear() empties the list of Row
\* objects and leaves the cells held by the columns; then add_row, for each
\* result in ascending order of IPv4Address(ip), appends a cell to each
\* column and a Row to table.rows.  The sort key raises AddressValueError
\* for a string that is no IPv4 address, after the rows were cleared.
update_table(rs, cells) ==
    IF \A i \in 1..Len(rs) : IPv4Address(rs[i][1]).ok
    THEN [raised |-> FALSE, rows |-> Len(rs), cells |-> cells \o SortedLines(rs)]
    ELSE [raised |-> TRUE, rows |-> 0, cells |-> cells]

\* A progress update that sets the count it was given instead of adding to it.
advance_dropped(n) == n

\* Line 100: progress.advance(task) adds 1 to the task's completed count.
advance(n) == n + 1

\* The orders in which the members of a set can be listed.
RECURSIVE Orderings(_)
Orderings(S) ==
    IF S = {} THEN {<<>>}
    ELSE UNION {{<<x>> \o q : q \in Orderings(S \ {x})} : x \in S}

\* Line 98, as_completed(future_to_host) starts: the futures already
\* finished are collected in a set and yielded first, in the set's order;
\* a waiter is installed that receives every later completion in the order
\* of completion.
AsCompletedStart ==
    /\ pc = "as_completed"
    /\ ready' \in Orderings(Finished)
    /\ pc' = "loop"
    /\ UNCHANGED <<OS, subnet, message, network, hosts, executor, future_to_host,
                   fstate, fecho, foutcome, work_queue, threads, idle, ping_log, cmd_log, yielded,
                   results, completed, total, table_rows, table_cells, exc, cancelled, up_hosts>>

\* Lines 98-101, one iteration: as_completed yields the next finished
\* future; future.result() returns ping's tuple or re-raises what ping
\* raised; the tuple is appended, the progress task advanced and the table
\* rebuilt.  An exception leaves the loop and the `with` blocks.
Record ==
    /\ pc = "loop"
    /\ ready # <<>>
    /\ ready' = Tail(ready)
    /\ yielded' = yielded \cup {Head(ready)}
    /\ LET f == Head(ready) IN
       IF foutcome[f].raised
       THEN /\ exc' = "ProbeError"
            /\ pc' = "shutdown"
            /\ UNCHANGED <<results, completed, table_rows, table_cells>>
       ELSE LET rs == RecordOutcome(results, foutcome[f].value)
                t == update_table(rs, table_cells)
            IN /\ results' = rs
               /\ completed' = advance(completed)
               /\ table_rows' = t.rows
               /\ table_cells' = t.cells
               /\ exc' = IF t.raised THEN "AddressValueError" ELSE exc
               /\ pc' = IF t.raised THEN "shutdown" ELSE pc
    /\ UNCHANGED <<OS, subnet, message, network, hosts, executor, future_to_host,
                   fstate, fecho, foutcome, work_queue, threads, idle, ping_log, cmd_log, total,
                   cancelled, up_hosts>>

\* as_completed stopping as soon as no finished future is waiting.
AsCompletedStopsWhenIdle == ready = <<>>

\* as_completed stops once every future it was given has been yielded.
AsCompletedExhausted == yielded = Futures

\* Line 98, the loop ends: the calling thread leaves the `with executor`
\* block.
LoopExit ==
    /\ pc = "loop"
    /\ AsCompletedExhausted
    /\ pc' = "shutdown"
    /\ UNCHANGED <<OS, subnet, message, network, hosts, executor, future_to_host,
                   fstate, fecho, foutcome, work_queue, threads, idle, ping_log, cmd_log, ready, yielded,
                   results, completed, total, table_rows, table_cells, exc, cancelled, up_hosts>>

\* KeyboardInterrupt is raised on the calling thread while it submits,
\* starts as_completed or runs the loop; nothing in sweep_network or main catches it, so it
\* leaves the `with` blocks like any other exception.
Interrupt ==
    /\ pc \in {"submit", "as_completed", "loop"}
    /\ cancelled' = TRUE
    /\ exc' = "KeyboardInterrupt"
    /\ pc' = "shutdown"
    /\ UNCHANGED <<OS, subnet, message, network, hosts, executor, future_to_host,
                   fstate, fecho, foutcome, work_queue, threads, idle, ping_log, cmd_log, ready, yielded,
                   results, completed, total, table_rows, table_cells, up_hosts>>

\* ThreadPoolExecutor.__exit__ is shutdown(wait=True): queued work items are
\* not cancelled, and the worker threads are joined once they have run all
\* of them.
PoolJoined == \A f \in Futures : fstate[f] = "finished"

\* Line 96: the `with ThreadPoolExecutor` block is left once the pool is
\* joined.
ExecutorExit ==
    /\ pc = "shutdown"
    /\ PoolJoined
    /\ pc' = "live_exit"
    /\ UNCHANGED <<OS, subnet, message, network, hosts, executor, future_to_host,
                   fstate, fecho, foutcome, work_queue, threads, idle, ping_log, cmd_log, ready, yielded,
                   results, completed, total, table_rows, table_cells, exc, cancelled, up_hosts>>

\* Rendering the table takes, for every line of cells below the header, the
\* Row object of the same index from table.rows: it raises IndexError when
\* the columns hold more cells than table.rows holds rows.
TableRenders(rows, cells) == Len(cells) <= rows

\* Lines 95-102: leaving the `with Live` block stops the display, which
\* renders the panel and its table one last time.  Then sweep_network
\* returns results, or the exception (the one pending, or the IndexError of
\* the rendering) propagates through main(), which has no handler around the
\* call.
LiveExit ==
    /\ pc = "live_exit"
    /\ IF TableRenders(table_rows, table_cells)
       THEN /\ pc' = IF exc = "none" THEN "returned" ELSE "raised"
            /\ exc' = exc
       ELSE /\ pc' = "raised"
            /\ exc' = "IndexError"
    /\ UNCHANGED <<OS, subnet, message, network, hosts, executor, future_to_host,
                   fstate, fecho, foutcome, work_queue, threads, idle, ping_log,
                   cmd_log, ready, yielded, results, completed, total, table_rows,
                   table_cells, cancelled, up_hosts>>

\* [ip for ip, alive in rs if alive]
UpHosts(rs) ==
    LET IsUp(r) == r[2]
        ups == SelectSeq(rs, IsUp)
    IN [i \in 1..Len(ups) |-> ups[i][1]]

\* main(), lines 120-142: the returned list is summarised in the order it
\* was returned.
Summary ==
    /\ pc = "returned"
    /\ up_hosts' = UpHosts(results)
    /\ pc' = "done"
    /\ UNCHANGED <<OS, subnet, message, network, hosts, executor, future_to_host,
                   fstate, fecho, foutcome, work_queue, threads, idle, ping_log, cmd_log, ready, yielded,
                   results, completed, total, table_rows, table_cells, exc, cancelled>>

Next ==
    \/ ParseRange
    \/ Setup
    \/ Submit
    \/ StartProbe
    \/ \E f \in Futures : \E o \in EchoOutcomes(future_to_host[f], Len(hosts)) : FinishProbe(f, o)
    \/ AsCompletedStart
    \/ Record
    \/ LoopExit
    \/ Interrupt
    \/ ExecutorExit
    \/ LiveExit
    \/ Summary

Spec == Init /\ [][Next]_vars

\* The enumeration alone, lines 67-73, over the subnet strings of
\* EnumSubnets: the sweep is followed up to the list of hosts.
EnumInit == MainCalls(EnumSubnets)

EnumNext ==
    \/ ParseRange
    \/ Setup

EnumSpec == EnumInit /\ [][EnumNext]_vars

\* ------------------------------------------------------------ properties

\* sweep_network has returned its list to main().
SweepReturned == pc \in {"returned", "done"}

\* The fan-in loop has ended with no exception pending: results is the list
\* line 102 returns, and only leaving the `with` blocks lies before the
\* return.
LoopCompleted == pc \in {"shutdown", "live_exit"} /\ exc = "none"

\* The list sweep_network returns is final.
ResultsFinal == LoopCompleted \/ SweepReturned

\* How often a host string occurs as the address of an outcome / in a list.
OutcomesFor(h) == Cardinality({j \in 1..Len(results) : results[j][1] = h})
CallsFor(h) == Cardinality({j \in 1..Len(ping_log) : ping_log[j] = h})

\* The six-host sweep, which has more hosts than the pool has workers.
SixHosts == Len(hosts) = 6

\* C1: after a sweep that ran to completion the returned list holds exactly
\* one outcome per enumerated host: as many outcomes as hosts, every host
\* once, whatever the order of completion.
C1_OneOutcomePerHost ==
    ResultsFinal =>
        /\ hosts = HostStrings(network)
        /\ Len(results) = Len(hosts)
        /\ \A i \in 1..Len(hosts) : OutcomesFor(hosts[i]) = 1

\* A completed six-host sweep whose outcomes arrived out of address order.
C1_Witness ==
    /\ pc = "live_exit"
    /\ LoopCompleted
    /\ SixHosts
    /\ results[1][1] = hosts[6]

\* C2: at every instant the number of probes started and not yet returned is
\* at most the pool's ceiling.
C2_InFlightWithinCeiling == Cardinality(Running) <= MAX_THREADS

\* The ceiling reached while further probes of a larger sweep are queued.
C2_Witness ==
    /\ Cardinality(Running) = MAX_THREADS
    /\ work_queue # <<>>
    /\ Len(hosts) > MAX_THREADS

\* C3: the list sweep_network returns is in ascending order of the numeric
\* address, whatever order the probes completed in.
C3_ReturnedSorted ==
    ResultsFinal =>
        \A i, j \in 1..Len(results) :
            i < j => AddrLess(IPv4Address(results[i][1]).groups,
                              IPv4Address(results[j][1]).groups)

\* C4: sweep_network returns only after every submitted probe has finished
\* and its outcome has been appended: nothing is queued, running or
\* unrecorded once it has returned.
C4_NoDanglingWorkOnReturn ==
    ResultsFinal =>
        /\ work_queue = <<>>
        /\ \A f \in Futures :
            /\ fstate[f] = "finished"
            /\ \E j \in 1..Len(results) : results[j] = foutcome[f].value

\* A sweep with more hosts than workers is through its loop and its pool.
C4_Witness ==
    /\ pc = "live_exit"
    /\ LoopCompleted
    /\ Len(future_to_host) > MAX_THREADS

\* C5: ping is started at most once for any address, and once the sweep has
\* returned it has been started for every enumerated address.
C5_ProbedExactlyOnce ==
    /\ \A i \in 1..Len(ping_log) : CallsFor(ping_log[i]) = 1
    /\ ResultsFinal => \A i \in 1..Len(hosts) : CallsFor(hosts[i]) = 1

\* Every host of the six-host sweep probed and the sweep completed.
C5_Witness ==
    /\ LoopCompleted
    /\ pc = "shutdown"
    /\ SixHosts
    /\ Len(ping_log) = 6

\* C6: a sweep cancelled after probing started still hands its caller a
\* result (a partial list over enumerated addresses): it ends by returning,
\* not by raising.
C6_CancelledSweepReturns ==
    cancelled =>
        /\ pc # "raised"
        /\ \A j \in 1..Len(results) : \E i \in 1..Len(hosts) : results[j][1] = hosts[i]

\* C7: once the sweep is cancelled no probe that had not started is started.
C7_NoStartAfterCancel ==
    [][cancelled =>
          \A f \in Futures : fstate[f] = "pending" => fstate'[f] = "pending"]_vars

\* C8: whenever the echo command fails (non-zero exit status or a raised
\* error) ping returns (host, False) and raises nothing, so the loop's
\* future.result() never raises and no probe aborts the sweep.
C8_ProbeFailureIsDead ==
    /\ exc # "ProbeError"
    /\ \A f \in Finished :
        fecho[f] # "exit0" =>
            foutcome[f] = [raised |-> FALSE, value |-> <<future_to_host[f], FALSE>>]

\* A sweep completed although the echo command of one probe raised an error
\* and that of another exited non-zero.
C8_Witness ==
    /\ LoopCompleted
    /\ results # <<>>
    /\ \E f \in Futures : fecho[f] = "error"
    /\ \E f \in Futures : fecho[f] = "nonzero"

\* The strings "not-an-ip" and "10.0.0.1/33".
UnparseableSubnets ==
    { Subnet([sep |-> "-", parts |-> <<>>], 0), Subnet(V4(10, 0, 0, 1), 33) }

\* C9: for a string that is no network the sweep ends at the parse with a
\* printed reason: no pool is created, no probe submitted or started, no
\* outcome recorded.
C9_UnparseableRejectedFirst ==
    subnet \in UnparseableSubnets =>
        /\ pc \in {"parse", "exited"}
        /\ pc = "exited" => message # "none"
        /\ ~executor
        /\ future_to_host = <<>>
        /\ ping_log = <<>>
        /\ results = <<>>

\* "not-an-ip" has been refused.
C9_Witness ==
    /\ subnet = Subnet([sep |-> "-", parts |-> <<>>], 0)
    /\ pc = "exited"

\* C10: probing starts only for IPv4 networks, and no sweep fails after
\* probing began because of the kind of address it was given.
C10_OnlyIPv4Probed ==
    /\ future_to_host # <<>> => network.version = 4
    /\ exc # "AddressValueError"

\* C11: the progress count starts at 0 and never exceeds the total, which is
\* the number of enumerated hosts; it changes only by a tick of the loop,
\* which adds exactly 1 for the one probe it takes; it equals the number of
\* completions taken, and when the loop has ended it equals the total.
C11_ProgressTicks ==
    /\ [](/\ completed <= total
          /\ completed = Cardinality(yielded)
          /\ pc \in {"parse", "setup", "exited"} => completed = 0
          /\ pc \in {"submit", "as_completed", "loop"} => total = Len(hosts)
          /\ LoopCompleted => (completed = total /\ total = Len(hosts)))
    /\ [][completed' # completed =>
             /\ pc = "loop"
             /\ completed' = completed + 1
             /\ Cardinality(yielded') = Cardinality(yielded) + 1]_vars

\* The six-host sweep's loop has ended after six ticks.
C11_Witness ==
    /\ LoopCompleted
    /\ SixHosts
    /\ completed = 6
    /\ total = 6

\* C12: in every state the outcomes recorded are at most the enumerated
\* hosts and at most the probes that have finished, and once as_completed
\* is exhausted they are as many as the hosts.
C12_RecordedWithinHosts ==
    /\ Len(results) <= Len(hosts)
    /\ Len(results) <= Cardinality(Finished)
    /\ ResultsFinal => Len(results) = Len(hosts)

\* Mid-sweep: some outcomes recorded, more probes finished than recorded,
\* and probes still to finish.
C12_Witness ==
    /\ pc = "loop"
    /\ Len(results) >= 1
    /\ Len(results) < Cardinality(Finished)
    /\ Cardinality(Finished) < Len(hosts)

\* The duration a command's timeout argument denotes, in milliseconds:
\* ping takes -w in milliseconds on Windows and -W in seconds elsewhere.
DenotedTimeoutMs(cmd) ==
    IF cmd.timeout_flag = "-w"
    THEN FromDigits(cmd.timeout, 10)
    ELSE FromDigits(cmd.timeout, 10) * 1000

\* C15: every command a probe runs asks for one echo request and its
\* timeout argument denotes the configured PING_TIMEOUT_MS, a positive
\* duration, on the Windows and on the non-Windows form.
C15_OneRequestWithinTimeout ==
    \A i \in 1..Len(cmd_log) :
        /\ cmd_log[i].count = <<1>>
        /\ cmd_log[i].host = ping_log[i]
        /\ DenotedTimeoutMs(cmd_log[i]) = PING_TIMEOUT_MS
        /\ DenotedTimeoutMs(cmd_log[i]) > 0

\* C16: results changes only by the fan-in loop appending the outcome of
\* the one future it has taken from as_completed; the step of a worker
\* (a probe starting or finishing) never changes results, and the step that
\* appends changes no probe's state, so no two appends overlap and each
\* taken future adds exactly one outcome.
C16_OnlyLoopAppends ==
    [][results' # results =>
          /\ pc = "loop"
          /\ ready # <<>>
          /\ Head(ready) \notin yielded
          /\ results' = Append(results, foutcome[Head(ready)].value)
          /\ fstate' = fstate
          /\ foutcome' = foutcome
          /\ ping_log' = ping_log]_vars

\* Two probes have completed and wait for the loop, which has recorded one
\* outcome already, while a further probe is running.
C16_Witness ==
    /\ pc = "loop"
    /\ Len(ready) >= 2
    /\ Len(results) >= 1
    /\ Running # {}

\* C17: every recorded outcome (h, alive) is that of the finished probe of
\* the enumerated address h: alive exactly when the echo command run for h
\* exited with status 0.
C17_OutcomeOfOwnProbe ==
    \A j \in 1..Len(results) :
        /\ \E i \in 1..Len(hosts) : hosts[i] = results[j][1]
        /\ \E f \in Finished : future_to_host[f] = results[j][1]
        /\ \A f \in Futures :
              future_to_host[f] = results[j][1] =>
                  /\ fstate[f] = "finished"
                  /\ results[j][2] = (fecho[f] = "exit0")

\* Outcomes recorded against the address order: the second host answered
\* and was recorded first, the first host did not answer.
C17_Witness ==
    /\ Len(results) = 2
    /\ results[1] = <<hosts[2], TRUE>>
    /\ results[2] = <<hosts[1], FALSE>>
    /\ fecho[1] # "exit0"

\* C18: once the loop of an IPv4 sweep has processed a completion, the
\* table holds one row per recorded outcome and its lines are exactly the
\* recorded outcomes in ascending address order.
C18_TableIsSortedOutcomes ==
    (network.ok /\ network.version = 4 /\ results # <<>>) =>
        /\ table_rows = Len(results)
        /\ table_cells = SortedLines(results)

\* C19: an uncancelled sweep over a valid range, taken here as a valid IPv4
\* range of any size, does not end by raising: it can end only by returning.
C19_UncancelledSweepReturns ==
    (network.ok /\ network.version = 4 /\ ~cancelled) => pc # "raised"

\* The hosts have been enumerated from an IPv4 subnet string.
Enumerated == pc \notin {"parse", "setup", "exited"} /\ ParsesAs(subnet.address, 4)

\* The octets the subnet string spells, the size of its block, and the last
\* octet of the block's first address.
GivenGroups == GroupsOf(subnet.address, 4)
BlockSize == Pow2(32 - subnet.prefix)
BlockStart == (GivenGroups[4] \div BlockSize) * BlockSize

\* The address value of host number i.
HostGroups(i) == IPv4Address(hosts[i]).groups

\* Host number i lies in the block of the subnet string.
InBlock(i) ==
    /\ IPv4Address(hosts[i]).ok
    /\ \A g \in 1..3 : HostGroups(i)[g] = GivenGroups[g]
    /\ HostGroups(i)[4] >= BlockStart
    /\ HostGroups(i)[4] <= BlockStart + BlockSize - 1

\* C13: for an IPv4 subnet string with prefix length p <= 30, host bits set
\* or not, the hosts are exactly 2^(32-p) - 2 addresses in ascending order,
\* all in the block of the given address, the block's first (network) and
\* last (broadcast) address not among them.
C13_HostsOfPrefix ==
    (Enumerated /\ subnet.prefix <= 30) =>
        /\ Len(hosts) = BlockSize - 2
        /\ \A i, j \in 1..Len(hosts) :
              i < j => AddrLess(HostGroups(i), HostGroups(j))
        /\ \A i \in 1..Len(hosts) :
              /\ InBlock(i)
              /\ HostGroups(i)[4] # BlockStart
              /\ HostGroups(i)[4] # BlockStart + BlockSize - 1

\* 192.168.1.13/29, written with host bits set, enumerated as 192.168.1.8/29:
\* six hosts from 192.168.1.9 to 192.168.1.14.
C13_Witness ==
    /\ Enumerated
    /\ subnet = Subnet(V4(192, 168, 1, 13), 29)
    /\ Len(hosts) = 6
    /\ hosts[1] = V4(192, 168, 1, 9)
    /\ hosts[6] = V4(192, 168, 1, 14)

\* C14 as claimed: a /31 and a /32 both enumerate exactly one address.
C14_OneAddressEach ==
    (Enumerated /\ subnet.prefix \in {31, 32}) => Len(hosts) = 1

\* C14 as amended: a /32 enumerates exactly its one address and a /31
\* exactly its two addresses, in ascending order; neither the first nor the
\* last address of the block is left out.
C14_SingleAndPair ==
    /\ (Enumerated /\ subnet.prefix = 32) =>
          /\ Len(hosts) = 1
          /\ hosts[1] = subnet.address
    /\ (Enumerated /\ subnet.prefix = 31) =>
          /\ Len(hosts) = 2
          /\ InBlock(1)
          /\ InBlock(2)
          /\ HostGroups(1)[4] = BlockStart
          /\ HostGroups(2)[4] = BlockStart + 1

\* 192.168.1.5/31 enumerated as the pair 192.168.1.4, 192.168.1.5.
C14_Witness ==
    /\ Enumerated
    /\ subnet = Subnet(V4(192, 168, 1, 5), 31)
    /\ hosts = <<V4(192, 168, 1, 4), V4(192, 168, 1, 5)>>

====
